---- MODULE Spec2Model ----
(***************************************************************************)
(* A model of cloudblender.py: the operators that fetch image slabs from   *)
(* a CloudVolume image volume (optionally overlaid with a colourised       *)
(* segmentation), re-sync them after the user edited their geometry, and   *)
(* colour segment IDs with a seeded hash.                                  *)
(*                                                                         *)
(* Representation choices                                                  *)
(*  - A VoxelRange is the 6-tuple <<x1,x2,y1,y2,z1,z2>>.                   *)
(*  - Unsigned integers wider than TLC's integers (32-bit hashes, 64-bit   *)
(*    segment IDs) are little-endian sequences of 16-bit limbs.            *)
(*  - Real numbers are exact rationals: a resolution ratio is the pair of  *)
(*    resolutions, a local coordinate is its numerator over scale_factor   *)
(*    (i.e. the physical coordinate), a colour channel is its numerator    *)
(*    over ColorDen.  The datasets and resolutions drawn here have ratios  *)
(*    that binary floating point represents exactly.                       *)
(*  - Pixel content is abstracted to the read that produced it.            *)
(***************************************************************************)
EXTENDS Integers, Sequences, FiniteSets, TLC

VARIABLES
    VOLUME_IMG,   \* global image volume handle: NoVolume or [url, mip]
    VOLUME_SEG,   \* global segmentation volume handle: NoVolume or [url, mip]
    objects,      \* bpy.data.objects, in creation order
    reads,        \* the volume reads issued by the last operator, in order
    plan,         \* what the last update_images pass decided per object
    last,         \* the last operator run and how it ended
    call,         \* pure-function specifications: the call and its result
    seen          \* colour observations <<id, rgb>> made by the calls so far

sceneVars == <<VOLUME_IMG, VOLUME_SEG, objects, reads, plan, last>>
vars == <<VOLUME_IMG, VOLUME_SEG, objects, reads, plan, last, call, seen>>

None == "None"

\* Python's None where a volume handle, a level or a read is expected
NoVolume == [url |-> "", mip |-> 0]
NoMip == -1
NoRead == [vol |-> "", mip |-> 0, rng |-> <<>>]

(***************************************************************************)
(* Bounds of the model.                                                    *)
(***************************************************************************)
MaxC == 2        \* SpecAlign: coordinates range over -1..MaxC
MaxReq == 2      \* Spec: upper request coordinate along the slicing axis, 0..MaxReq
MaxF == 1        \* SpecFetch: the six request coordinates, -1..MaxF
MaxVox == 2      \* SpecColor: voxels per segmentation block
MaxCalls == 2    \* SpecColor: colourisation calls per behaviour
MaxP == 6        \* SpecCoord: physical coordinates range over -MaxP..MaxP

(***************************************************************************)
(* Small helpers.                                                          *)
(***************************************************************************)
Axes == {"x", "y", "z"}

\* axis_ix, 1-based
axis_ix(axis) == CASE axis = "x" -> 1 [] axis = "y" -> 2 [] axis = "z" -> 3

Lo(rng, a) == rng[2 * a - 1]
Hi(rng, a) == rng[2 * a]

NonDegenerate(rng) == \A a \in 1..3 : Hi(rng, a) > Lo(rng, a)

RECURSIVE SetMax(_)
SetMax(S) == LET x == CHOOSE x \in S : TRUE
             IN  IF S = {x} THEN x
                 ELSE LET m == SetMax(S \ {x}) IN IF x > m THEN x ELSE m

RECURSIVE SetMin(_)
SetMin(S) == LET x == CHOOSE x \in S : TRUE
             IN  IF S = {x} THEN x
                 ELSE LET m == SetMin(S \ {x}) IN IF x < m THEN x ELSE m

(***************************************************************************)
(* Unbounded-integer arithmetic on 16-bit limbs (Python ints).             *)
(***************************************************************************)
Base == 2^16

\* a * b for 0 <= a, b < Base, as <<low limb, high limb>>
Mul16(a, b) ==
    LET y  == a * (b % 256)
        x  == a * (b \div 256)
        s  == (x % 256) * 256 + y
    IN  <<s % Base, (x \div 256) + (s \div Base)>>

RECURSIVE AddAt(_, _, _)
\* acc + v * Base^(pos-1), within Len(acc) limbs
AddAt(acc, pos, v) ==
    IF v = 0 \/ pos > Len(acc) THEN acc
    ELSE LET s == acc[pos] + v
         IN  AddAt([acc EXCEPT ![pos] = s % Base], pos + 1, s \div Base)

Zeros(n) == [k \in 1..n |-> 0]

RECURSIVE MulAcc(_, _, _, _)
MulAcc(a, b, k, acc) ==
    IF k > Len(a) * Len(b) THEN acc
    ELSE LET i == ((k - 1) \div Len(b)) + 1
             j == ((k - 1) % Len(b)) + 1
             p == Mul16(a[i], b[j])
         IN  MulAcc(a, b, k + 1, AddAt(AddAt(acc, i + j - 1, p[1]), i + j, p[2]))

\* the full product, Len(a) + Len(b) limbs
MulLimbs(a, b) == MulAcc(a, b, 1, Zeros(Len(a) + Len(b)))

RECURSIVE AddAcc(_, _, _)
AddAcc(acc, b, k) ==
    IF k > Len(b) THEN acc ELSE AddAcc(AddAt(acc, k, b[k]), b, k + 1)

\* the full sum, one limb more than the longer operand
AddLimbs(a, b) ==
    LET n == (IF Len(a) > Len(b) THEN Len(a) ELSE Len(b)) + 1
    IN  AddAcc([k \in 1..n |-> IF k <= Len(a) THEN a[k] ELSE 0], b, 1)

\* the set of positions of the 1 bits
Bits(a) == {n \in 0..(16 * Len(a) - 1) :
               (a[(n \div 16) + 1] \div 2^(n % 16)) % 2 = 1}

RECURSIVE SumPow(_)
SumPow(S) == IF S = {} THEN 0
             ELSE LET i == CHOOSE i \in S : TRUE IN 2^i + SumPow(S \ {i})

\* the n-limb integer whose 1 bits are bs (bs within 0..16n-1)
FromBits(bs, n) ==
    [k \in 1..n |-> SumPow({j \in 0..15 : 16 * (k - 1) + j \in bs})]

\* x & 0xFFFFFFFF, as two limbs
Mask32(a) == [k \in 1..2 |-> IF k <= Len(a) THEN a[k] ELSE 0]

ShiftLeftBits(bs, n) == {i + n : i \in bs}
ShiftRightBits(bs, n) == {i - n : i \in {j \in bs : j >= n}}
XorBits(p, q) == (p \ q) \cup (q \ p)
Bits32 == 0..31

\* the widening with a step of two
widen_by_two(rng) ==
    <<rng[1], IF rng[2] = rng[1] THEN rng[1] + 2 ELSE rng[2],
      rng[3], IF rng[4] = rng[3] THEN rng[3] + 2 ELSE rng[4],
      rng[5], IF rng[6] = rng[5] THEN rng[5] + 2 ELSE rng[6]>>

(***************************************************************************)
(* ResolutionAligner: image voxel range -> segmentation voxel range.       *)
(***************************************************************************)
\* "Make sure we don't have zero-sized slices": an axis with hi = lo gets
\* hi = lo + 1
widen(rng) ==
    <<rng[1], IF rng[2] = rng[1] THEN rng[1] + 1 ELSE rng[2],
      rng[3], IF rng[4] = rng[3] THEN rng[3] + 1 ELSE rng[4],
      rng[5], IF rng[6] = rng[5] THEN rng[5] + 1 ELSE rng[6]>>

\* im2seg_res_ratio = np.array(resolution_seg) / np.array(resolution), per
\* axis the rational <<numerator, denominator>>
im2seg_res_ratio(resolution, resolution_seg) ==
    <<<<resolution_seg[1], resolution[1]>>, <<resolution_seg[2], resolution[2]>>,
      <<resolution_seg[3], resolution[3]>>>>

floor_div_ratio_inverted(x, ratio) == (x * ratio[1]) \div ratio[2]

\* int(x // ratio)
floor_div_ratio(x, ratio) == (x * ratio[2]) \div ratio[1]

im2seg_fetch_nowiden(rng, resolution, resolution_seg) ==
    LET ratio == im2seg_res_ratio(resolution, resolution_seg)
    IN  <<floor_div_ratio(rng[1], ratio[1]), floor_div_ratio(rng[2], ratio[1]),
          floor_div_ratio(rng[3], ratio[2]), floor_div_ratio(rng[4], ratio[2]),
          floor_div_ratio(rng[5], ratio[3]), floor_div_ratio(rng[6], ratio[3])>>

\* fetch_slices.execute: x1_vxl_seg .. z2_vxl_seg
im2seg_fetch(rng, resolution, resolution_seg) ==
    LET ratio == im2seg_res_ratio(resolution, resolution_seg)
    IN  widen(<<floor_div_ratio(rng[1], ratio[1]), floor_div_ratio(rng[2], ratio[1]),
                floor_div_ratio(rng[3], ratio[2]), floor_div_ratio(rng[4], ratio[2]),
                floor_div_ratio(rng[5], ratio[3]), floor_div_ratio(rng[6], ratio[3])>>)

\* the update path without its widening
im2seg_update_nowiden(rng, resolution_im, resolution_seg) ==
    LET ratio == im2seg_res_ratio(resolution_im, resolution_seg)
    IN  <<floor_div_ratio(rng[1], ratio[1]), floor_div_ratio(rng[2], ratio[1]),
          floor_div_ratio(rng[3], ratio[2]), floor_div_ratio(rng[4], ratio[2]),
          floor_div_ratio(rng[5], ratio[3]), floor_div_ratio(rng[6], ratio[3])>>

\* update_images.execute: x1_vxl_seg .. z2_vxl_seg
im2seg_update(rng, resolution_im, resolution_seg) ==
    LET ratio == im2seg_res_ratio(resolution_im, resolution_seg)
    IN  widen(<<floor_div_ratio(rng[1], ratio[1]), floor_div_ratio(rng[2], ratio[1]),
                floor_div_ratio(rng[3], ratio[2]), floor_div_ratio(rng[4], ratio[2]),
                floor_div_ratio(rng[5], ratio[3]), floor_div_ratio(rng[6], ratio[3])>>)

(***************************************************************************)
(* HashColorizer: hash_function, rgb_from_segment_id.                      *)
(***************************************************************************)
k1 == <<11601, 52382>>     \* 0xCC9E2D51
k2 == <<13715, 7047>>      \* 0x1B873593
HashAdd == <<27492, 58964>>  \* 0xE6546B64

\* value = ((value << 15) | value >> 17) & 0xFFFFFFFF
RotMix15(v) ==
    FromBits((ShiftLeftBits(Bits(v), 15) \cup ShiftRightBits(Bits(v), 17))
             \cap Bits32, 2)

\* the shift by 13 without the bits that wrap around
RotMix13_shift_only(v) ==
    FromBits(ShiftLeftBits(Bits(v), 13) \cap Bits32, 2)

\* state = ((state << 13) | state >> 19) & 0xFFFFFFFF
RotMix13(v) ==
    FromBits((ShiftLeftBits(Bits(v), 13) \cup ShiftRightBits(Bits(v), 19))
             \cap Bits32, 2)

\* hash_function(state, value): state and value are limb sequences of any
\* length; the result has two limbs
hash_function(state, value) ==
    LET s0 == Mask32(state)
        v1 == Mask32(MulLimbs(value, k1))
        v2 == RotMix15(v1)
        v3 == Mask32(MulLimbs(v2, k2))
        s1 == FromBits(XorBits(Bits(s0), Bits(v3)) \cap Bits32, 2)
        s2 == RotMix13(s1)
    IN  Mask32(AddLimbs(MulLimbs(s2, <<5>>), HashAdd))

\* the values hash_function assigns to `state` and `value`, in order, the
\* returned state last
hash_trace(state, value) ==
    LET s0 == Mask32(state)
        v1 == Mask32(MulLimbs(value, k1))
        v2 == RotMix15(v1)
        v3 == Mask32(MulLimbs(v2, k2))
        s1 == FromBits(XorBits(Bits(s0), Bits(v3)) \cap Bits32, 2)
        s2 == RotMix13(s1)
    IN  <<s0, v1, v2, v3, s1, s2, Mask32(AddLimbs(MulLimbs(s2, <<5>>), HashAdd))>>

\* segment_id >> 32
ShiftRight32(id) == [k \in 1..2 |-> IF k + 2 <= Len(id) THEN id[k + 2] ELSE 0]

\* result2 of rgb_from_segment_id
SegmentHash(color_seed, segment_id) ==
    LET result   == hash_function(color_seed, segment_id)
        newvalue == ShiftRight32(segment_id)
    IN  hash_function(result, newvalue)

\* colour channels are numerators over ColorDen = 510 * 255
ColorDen == 510 * 255

\* colorsys.hsv_to_rgb(h, s, v) for h = c0/255, s = 0.5 + 0.5*c1/255, v = 1
hsv_to_rgb(c0, c1) ==
    LET i  == (6 * c0) \div 255              \* int(h*6.0)
        fn == 6 * c0 - 255 * i               \* f = fn/255
        v  == ColorDen
        p  == 255 * (255 - c1)               \* v*(1-s)
        q  == ColorDen - (255 + c1) * fn     \* v*(1-s*f)
        t  == ColorDen - (255 + c1) * (255 - fn)  \* v*(1-s*(1-f))
        m  == i % 6
    IN  CASE m = 0 -> <<v, t, p>>
          [] m = 1 -> <<q, v, p>>
          [] m = 2 -> <<p, v, t>>
          [] m = 3 -> <<p, q, v>>
          [] m = 4 -> <<t, p, v>>
          [] m = 5 -> <<v, p, q>>

rgb_from_segment_id(color_seed, segment_id) ==
    LET result2 == SegmentHash(color_seed, segment_id)
        c0 == result2[1] % 256               \* result2 & 0xFF
        c1 == (result2[1] \div 256) % 256    \* (result2 >> 8) & 0xFF
    IN  hsv_to_rgb(c0, c1)

Black == <<0, 0, 0>>

(***************************************************************************)
(* seg_ids_to_colors: unique IDs, colour map, float cast, remap.           *)
(***************************************************************************)
Zero64 == <<0, 0, 0, 0>>

\* a < b for limb sequences of one length
LessLimbs(a, b) ==
    \E k \in 1..Len(a) : /\ a[k] < b[k]
                         /\ \A j \in (k + 1)..Len(a) : a[j] = b[j]

RECURSIVE SortLimbs(_)
\* the members of S in ascending order
SortLimbs(S) ==
    IF S = {} THEN <<>>
    ELSE LET m == CHOOSE m \in S : \A o \in S \ {m} : LessLimbs(m, o)
         IN  <<m>> \o SortLimbs(S \ {m})

\* np.unique(seg)
unique(seg) == SortLimbs({seg[v] : v \in DOMAIN seg})

BitLength(a) == IF Bits(a) = {} THEN 0 ELSE SetMax(Bits(a)) + 1

Pad5(a) == [k \in 1..5 |-> IF k <= Len(a) THEN a[k] ELSE 0]

\* uint64 -> float64 (53-bit significand, round to nearest, ties to even);
\* the float is written as the 5-limb integer it equals
astype_float(id) ==
    LET d == BitLength(id) - 53
    IN  IF d <= 0 THEN Pad5(id)
        ELSE LET q    == id[1] \div 2^d
                 r    == id[1] % 2^d
                 half == 2^(d - 1)
                 up   == r > half \/ (r = half /\ q % 2 = 1)
                 kept == Pad5([id EXCEPT ![1] = q * 2^d])
             IN  IF up THEN AddAt(kept, 1, 2^d) ELSE kept

\* seed=1234 (seg_ids_to_colors' default, color_neurons' literal)
DefaultSeed == <<1234, 0>>

\* The IDs and seeds the calls are drawn from:
\* 0, 1, 2^32 + 1, 2^53, 2^53 + 1
SegIds == {Zero64, <<1, 0, 0, 0>>, <<1, 0, 1, 0>>, <<0, 0, 0, 32>>, <<1, 0, 0, 32>>}

Seeds == {DefaultSeed, <<65535, 65535>>}

\* rgb_from_segment_id tabulated over the drawn inputs
\* (evaluated once instead of in every state)
RgbTable == {<<seed, id, rgb_from_segment_id(seed, id)>> : seed \in Seeds, id \in SegIds}

Rgb(seed, id) == (CHOOSE t \in RgbTable : t[1] = seed /\ t[2] = id)[3]

\* cmap = {i: rgb_from_segment_id(seed, i) for i in ids}; cmap[0] = (0, 0, 0)
\* as the sequence of the dict's <<key, value>> items in insertion order
build_cmap(ids, seed) ==
    LET gen == [n \in 1..Len(ids) |-> <<ids[n], Rgb(seed, ids[n])>>]
    IN  IF \E n \in 1..Len(gen) : gen[n][1] = Zero64
        THEN [n \in 1..Len(gen) |->
                 IF gen[n][1] = Zero64 THEN <<Zero64, Black>> ELSE gen[n]]
        ELSE Append(gen, <<Zero64, Black>>)

\* fastremap.remap on a float array: the table's keys are converted to the
\* array's element type as they are inserted, a later item replacing an
\* earlier one with the same converted key
remap(farr, cmap) ==
    [v \in DOMAIN farr |->
        LET hits == {n \in 1..Len(cmap) : astype_float(cmap[n][1]) = farr[v]}
        IN  cmap[SetMax(hits)][2]]

seg_ids_to_colors(seg, seed) ==
    LET ids  == unique(seg)
        cmap == build_cmap(ids, seed)
        fseg == [v \in DOMAIN seg |-> astype_float(seg[v])]
    IN  remap(fseg, cmap)

\* a flattened (N, M, K) block of segment IDs
Blocks == UNION {[1..n -> SegIds] : n \in 1..MaxVox}

\* seg_ids_to_colors tabulated over the drawn blocks (evaluated once)
ColorizeTable ==
    {<<seed, seg, seg_ids_to_colors(seg, seed)>> : seed \in Seeds, seg \in Blocks}

Colorize(seg, seed) == (CHOOSE t \in ColorizeTable : t[1] = seed /\ t[2] = seg)[3]

(***************************************************************************)
(* The volumes and the scene.                                              *)
(***************************************************************************)
Levels == {0, 1}

\* VOLUME.scales[mip]["resolution"] of the two datasets, mip 0 first.  The
\* segmentation is twice as coarse as the image in x and y at both levels,
\* twice as fine in z at mip 0 and as fine in z at mip 1.
VolumeScales(url) ==
    CASE url = "img" -> << <<2, 2, 4>>, <<4, 4, 4>> >>
      [] url = "seg" -> << <<4, 4, 2>>, <<8, 8, 4>> >>

resolution_at(volume, mip) == VolumeScales(volume.url)[mip + 1]

\* cv.CloudVolume(url): a new handle, at mip 0
CloudVolume(url) == [url |-> url, mip |-> 0]

Read(vol, mip, rng) == [vol |-> vol, mip |-> mip, rng |-> rng]

\* VOLUME[x1:x2, y1:y2, z1:z2]: the block spans the box between the two
\* corner points
Extent(rng, a) ==
    IF Hi(rng, a) >= Lo(rng, a) THEN Hi(rng, a) - Lo(rng, a)
    ELSE Lo(rng, a) - Hi(rng, a)

RoundHalfEven(n, d) ==
    LET q == n \div d
        r == n % d
    IN  IF 2 * r < d THEN q
        ELSE IF 2 * r > d THEN q + 1
        ELSE IF q % 2 = 0 THEN q ELSE q + 1

ZeroVec == <<0, 0, 0>>

(***************************************************************************)
(* fetch_slices                                                            *)
(***************************************************************************)
\* the conversion with every coordinate divided by the z resolution
to_voxels_by_z(rng, coords, resolution) ==
    IF coords = "REAL"
    THEN <<rng[1] \div resolution[3], rng[2] \div resolution[3],
           rng[3] \div resolution[3], rng[4] \div resolution[3],
           rng[5] \div resolution[3], rng[6] \div resolution[3]>>
    ELSE rng

\* "Make sure we're working with voxel coordinates"
to_voxels(rng, coords, resolution) ==
    IF coords = "REAL"
    THEN <<rng[1] \div resolution[1], rng[2] \div resolution[1],
           rng[3] \div resolution[2], rng[4] \div resolution[2],
           rng[5] \div resolution[3], rng[6] \div resolution[3]>>
    ELSE rng

\* x1_vxl .. z2_vxl after "Make sure we don't have zero-sized slices"
request_range(req, resolution) == widen(to_voxels(req.rng, req.coords, resolution))

\* the index divided by the ratio
seg_index_inverted(i, ratio) == (i * ratio[2]) \div ratio[1]

\* i_seg = int(i * im2seg_res_ratio[self.axis_ix])
seg_index(i, ratio) == (i * ratio[1]) \div ratio[2]

\* "Convert to real units": a voxel coordinate times the resolution
to_physical(vxl, resolution) ==
    <<vxl[1] * resolution[1], vxl[2] * resolution[2], vxl[3] * resolution[3]>>

\* create_image_plane: the four corners, in physical units (the local
\* coordinate times scale_factor)
plane_vertices(rng, axis, depth, resolution) ==
    LET x1 == rng[1] x2 == rng[2] y1 == rng[3]
        y2 == rng[4] z1 == rng[5] z2 == rng[6]
        v  == CASE axis = "x" -> << <<depth, y1, z1>>, <<depth, y2, z1>>,
                                    <<depth, y2, z2>>, <<depth, y1, z2>> >>
                [] axis = "y" -> << <<x1, depth, z1>>, <<x2, depth, z1>>,
                                    <<x2, depth, z2>>, <<x1, depth, z2>> >>
                [] axis = "z" -> << <<x1, y1, depth>>, <<x2, y1, depth>>,
                                    <<x2, y2, depth>>, <<x1, y2, depth>> >>
        co(n) == to_physical(v[n], resolution)
    IN  <<co(1), co(2), co(3), co(4)>>

\* import_slice: the plane object with its material and tracked properties
create_image_plane(req, rng, depth, resolution, img_read, seg_read) ==
    [type     |-> "SLAB",
     mip      |-> req.mip,
     mip_built |-> req.mip,       \* what line 758 wrote, kept for reference
     mip_old  |-> NoMip,
     axis     |-> req.axis,
     depth    |-> depth,
     shader   |-> req.shader,
     show_seg |-> req.blend_seg,
     rng      |-> rng,
     verts    |-> plane_vertices(rng, req.axis, depth, resolution),
     loc      |-> ZeroVec,
     has_mix  |-> seg_read # NoRead,
     tex      |-> [img |-> img_read, seg |-> seg_read]]

\* a read raised and execute reports the exception as if it had finished
aborted_swallowed(img, seg, issued) ==
    [img |-> img, seg |-> seg, reads |-> issued, planes |-> <<>>, i_segs |-> <<>>,
     result |-> "FINISHED"]

\* a read raised: the exception leaves execute before the loop over the
\* slices, with no plane created
aborted(img, seg, issued) ==
    [img |-> img, seg |-> seg, reads |-> issued, planes |-> <<>>, i_segs |-> <<>>,
     result |-> "ERROR"]

\* The whole of fetch_slices.execute on request req with the volume handles
\* img and seg; `fail` is the number of the read that raises (0: none).
\* The result: the handles afterwards, the reads issued, the planes created,
\* the i_seg computed in each iteration entered, and how the operator ended.
fetch_slices(req, img, seg, fail) ==
    LET img1       == [img EXCEPT !.mip = req.mip]
        resolution == resolution_at(img1, req.mip)
        rng        == request_range(req, resolution)
        a          == axis_ix(req.axis)
        img_read   == Read("img", img1.mip, rng)
        blend      == req.blend_seg /\ seg # NoVolume
        seg1       == IF blend THEN [seg EXCEPT !.mip = req.mip] ELSE seg
        res_seg    == resolution_at(seg1, req.mip)
        ratio      == im2seg_res_ratio(resolution, res_seg)
        rng_seg    == im2seg_fetch(rng, resolution, res_seg)
        seg_read   == IF blend THEN Read("seg", seg1.mip, rng_seg) ELSE NoRead
        n_img      == Extent(rng, a)         \* data.shape[self.axis_ix]
        n_seg      == Extent(rng_seg, a)
        \* the slices imported before the loop raises, if it does
        ok(i)      == /\ req.shader = "PRINCIPLED"
                      /\ blend => seg_index(i, ratio[a]) < n_seg
        done       == IF \A i \in 0..(n_img - 1) : ok(i) THEN n_img
                      ELSE SetMin({i \in 0..(n_img - 1) : ~ok(i)})
        planes     == [k \in 1..done |->
                          create_image_plane(req, rng, Lo(rng, a) + (k - 1),
                                             resolution, img_read, seg_read)]
        entered    == IF done < n_img THEN done + 1 ELSE n_img
        i_segs     == IF blend
                      THEN [k \in 1..entered |-> seg_index(k - 1, ratio[a])]
                      ELSE <<>>
    IN  IF fail = 1
        THEN aborted(img1, seg, <<img_read>>)
        ELSE IF blend /\ fail = 2
        THEN aborted(img1, seg1, <<img_read, seg_read>>)
        ELSE [img |-> img1, seg |-> seg1,
              reads |-> IF blend THEN <<img_read, seg_read>> ELSE <<img_read>>,
              planes |-> planes,
              i_segs |-> i_segs,
              result |-> IF done = n_img THEN "FINISHED" ELSE "ERROR"]

(***************************************************************************)
(* update_images                                                           *)
(***************************************************************************)
\* ob.matrix_world @ v.co, times scale_factor: the corner in physical units
world_vertex(ob, n) ==
    <<ob.verts[n][1] + ob.loc[1], ob.verts[n][2] + ob.loc[2], ob.verts[n][3] + ob.loc[3]>>

\* (coords / resolution).round().astype(int)
coords_vxl(ob, resolution) ==
    LET c(n) == LET w == world_vertex(ob, n)
                IN  <<RoundHalfEven(w[1], resolution[1]),
                      RoundHalfEven(w[2], resolution[2]),
                      RoundHalfEven(w[3], resolution[3])>>
    IN  <<c(1), c(2), c(3), c(4)>>

\* min and max per axis, then "Make sure we don't get zero volume slices"
recomputed_range(ob, resolution) ==
    LET c     == coords_vxl(ob, resolution)
        col(a) == {c[1][a], c[2][a], c[3][a], c[4][a]}
    IN  widen(<<SetMin(col(1)), SetMax(col(1)), SetMin(col(2)), SetMax(col(2)),
                SetMin(col(3)), SetMax(col(3))>>)

\* "Check if we need to update"
no_update_needed(ob, rng, mip) == rng = ob.rng /\ mip = ob.mip_old

\* update_slice with the object put back at the origin
update_slice_recentred(ob, img_read, seg_read) ==
    [ob EXCEPT !.tex = [img |-> img_read, seg |-> seg_read], !.loc = ZeroVec]

\* update_slice: new texture nodes in the material of ob
update_slice(ob, img_read, seg_read) ==
    [ob EXCEPT !.tex = [img |-> img_read, seg |-> seg_read]]

\* update_slice followed by "Update the slice's properties"
resync(ob, rng, mip, img_read, seg_read) ==
    [update_slice(ob, img_read, seg_read) EXCEPT !.rng = rng, !.mip_old = mip]

\* what the pass decided for object i: the recomputed range, the level and
\* whether it went on to read
PlanEntry(i, rng, mip, read) == [ob |-> i, rng |-> rng, mip |-> mip, read |-> read]

\* the segmentation read of a re-sync taken at the level the handle is at
seg_read_for_selected_level(ob, seg, rng, resolution) ==
    IF ob.show_seg /\ seg # NoVolume
    THEN Read("seg", seg.mip, im2seg_update(rng, resolution, resolution_at(seg, seg.mip)))
    ELSE NoRead

\* The segmentation read of a re-sync, NoRead without overlay or volume
seg_read_for(ob, seg, rng, resolution) ==
    IF ob.show_seg /\ seg # NoVolume
    THEN Read("seg", ob.mip, im2seg_update(rng, resolution, resolution_at(seg, ob.mip)))
    ELSE NoRead

\* the re-sync that records range and level before it reads
read_and_resync_recording_first(st, i, fail, rng, img_read, seg_read) ==
    LET ob     == st.objects[i]
        n_img  == Len(st.reads) + 1
        blend  == seg_read # NoRead
        reads2 == IF blend THEN st.reads \o <<img_read, seg_read>>
                  ELSE Append(st.reads, img_read)
        entry  == PlanEntry(i, rng, ob.mip, TRUE)
        st2    == [st EXCEPT !.objects[i] = resync(ob, rng, ob.mip, img_read, seg_read),
                             !.plan = Append(@, entry)]
    IN  IF n_img = fail
        THEN [st2 EXCEPT !.img = [@ EXCEPT !.mip = ob.mip],
                         !.reads = Append(@, img_read), !.result = "ERROR"]
        ELSE IF blend /\ n_img + 1 = fail
        THEN [st2 EXCEPT !.seg = [@ EXCEPT !.mip = ob.mip], !.reads = reads2,
                         !.result = "ERROR"]
        ELSE IF ob.shader # "PRINCIPLED" \/ (blend /\ ~ob.has_mix)
        THEN [st2 EXCEPT !.reads = reads2, !.result = "ERROR"]
        ELSE [st2 EXCEPT !.reads = reads2]

\* The pass state st is [objects, img, seg, reads, plan, result], result
\* "RUNNING" until an exception ends the pass; `fail` is the number of the
\* read that raises.  From "Fetch the data" to "Update the slice's
\* properties" for object i, with the reads it is about to issue.
read_and_resync(st, i, fail, rng, img_read, seg_read) ==
    LET ob     == st.objects[i]
        mip    == ob.mip
        n_img  == Len(st.reads) + 1
        blend  == seg_read # NoRead
        reads2 == IF blend THEN st.reads \o <<img_read, seg_read>>
                  ELSE Append(st.reads, img_read)
        entry  == PlanEntry(i, rng, mip, TRUE)
    IN  IF n_img = fail
        THEN \* the image read raises with VOLUME_IMG.mip not restored
             [st EXCEPT !.img = [@ EXCEPT !.mip = mip],
                        !.reads = Append(@, img_read),
                        !.plan = Append(@, entry), !.result = "ERROR"]
        ELSE IF blend /\ n_img + 1 = fail
        THEN [st EXCEPT !.seg = [@ EXCEPT !.mip = mip], !.reads = reads2,
                        !.plan = Append(@, entry), !.result = "ERROR"]
        ELSE IF ob.shader # "PRINCIPLED"
        THEN \* "Expected material nodes missing."
             [st EXCEPT !.reads = reads2, !.plan = Append(@, entry),
                        !.result = "ERROR"]
        ELSE IF blend /\ ~ob.has_mix
        THEN \* mix_node is None: the image texture is already replaced
             [st EXCEPT !.objects[i] = update_slice(ob, img_read, NoRead),
                        !.reads = reads2, !.plan = Append(@, entry),
                        !.result = "ERROR"]
        ELSE [st EXCEPT !.objects[i] = resync(ob, rng, mip, img_read, seg_read),
                        !.reads = reads2, !.plan = Append(@, entry)]

\* "Check if we need to update" for object i with its recomputed range
plan_update(st, i, fail, rng, resolution) ==
    LET ob == st.objects[i]
    IN  IF no_update_needed(ob, rng, ob.mip)
        THEN [st EXCEPT !.plan = Append(@, PlanEntry(i, rng, ob.mip, FALSE))]
        ELSE read_and_resync(st, i, fail, rng, Read("img", ob.mip, rng),
                             seg_read_for(ob, st.seg, rng, resolution))

\* the iteration without the test for the "mip" property: an object that
\* has none gets its "mip_old" stamped
update_object_unfiltered(st, i, fail) ==
    IF st.result # "RUNNING" THEN st
    ELSE IF st.objects[i].type # "SLAB"
    THEN [st EXCEPT !.objects[i] = ("mip_old" :> 0) @@ @]
    ELSE plan_update(st, i, fail,
                     recomputed_range(st.objects[i],
                                      resolution_at(st.img, st.objects[i].mip)),
                     resolution_at(st.img, st.objects[i].mip))

\* One iteration of the loop over bpy.data.objects
update_object(st, i, fail) ==
    IF st.result # "RUNNING" \/ st.objects[i].type # "SLAB" THEN st
    ELSE plan_update(st, i, fail,
                     recomputed_range(st.objects[i],
                                      resolution_at(st.img, st.objects[i].mip)),
                     resolution_at(st.img, st.objects[i].mip))

RECURSIVE update_loop(_, _, _)
update_loop(st, i, fail) ==
    IF i > Len(st.objects) THEN st
    ELSE update_loop(update_object(st, i, fail), i + 1, fail)

\* The whole of update_images.execute
update_images(objs, img, seg, fail) ==
    LET st == update_loop([objects |-> objs, img |-> img, seg |-> seg,
                           reads |-> <<>>, plan |-> <<>>, result |-> "RUNNING"],
                          1, fail)
    IN  [st EXCEPT !.result = IF @ = "RUNNING" THEN "FINISHED" ELSE @]

(***************************************************************************)
(* SpecColor: sequences of colourisation calls.                            *)
(***************************************************************************)
SceneIdle ==
    /\ VOLUME_IMG = NoVolume
    /\ VOLUME_SEG = NoVolume
    /\ objects = <<>>
    /\ reads = <<>>
    /\ plan = <<>>
    /\ last = [op |-> "none", result |-> "none"]

NoCall == [fn |-> "none", n |-> 0]

InitColor ==
    /\ SceneIdle
    /\ call = NoCall
    /\ seen = {}

Observation(path, seed, id, rgb) ==
    [path |-> path, seed |-> seed, id |-> id, rgb |-> rgb]

\* seg_ids_to_colors(seg, seed=seed), as fetch_slices and update_images call it
CallColorizeBlock ==
    /\ call.n < MaxCalls
    /\ \E seed \in Seeds, seg \in Blocks :
          LET out == Colorize(seg, seed)
          IN  /\ call' = [fn |-> "seg_ids_to_colors", n |-> call.n + 1,
                          seed |-> seed, seg |-> seg, out |-> out]
              /\ seen' = seen \cup {Observation("overlay", seed, seg[v], out[v]) :
                                       v \in DOMAIN seg}
    /\ UNCHANGED sceneVars

\* rgb_from_segment_id(seed, id)
CallColorForId ==
    /\ call.n < MaxCalls
    /\ \E seed \in Seeds, id \in SegIds :
          LET out == Rgb(seed, id)
          IN  /\ call' = [fn |-> "rgb_from_segment_id", n |-> call.n + 1,
                          seed |-> seed, seg |-> <<id>>, out |-> <<out>>]
              /\ seen' = seen \cup {Observation("color_for_id", seed, id, out)}
    /\ UNCHANGED sceneVars

\* color_neurons.execute on one NEURON object: color = rgb_from_segment_id(1234, id)
CallColorNeuron ==
    /\ call.n < MaxCalls
    /\ \E id \in SegIds :
          LET color == Rgb(DefaultSeed, id)
          IN  /\ call' = [fn |-> "color_neurons", n |-> call.n + 1,
                          seed |-> DefaultSeed, seg |-> <<id>>, out |-> <<color>>]
              /\ seen' = seen \cup {Observation("neuron", DefaultSeed, id, color)}
    /\ UNCHANGED sceneVars

NextColor == CallColorizeBlock \/ CallColorForId \/ CallColorNeuron

SpecColor == InitColor /\ [][NextColor]_vars

\* C6: for every seed, the colour computed for ID 0 is pure black, on every
\* path that assigns a colour to an ID (overlay, direct call, neuron mesh).
C6_ZeroIsBlack ==
    \A o \in seen : o.id = Zero64 => o.rgb = Black

\* C7: the colour of an ID is a function of (seed, ID) alone: two
\* observations of one ID under one seed, made by colorize_block or
\* color_for_id calls, in whatever block and after whatever calls, agree.
C7_ColorIsFunctionOfSeedAndId ==
    \A a, b \in seen :
        (/\ a.path \in {"overlay", "color_for_id"}
         /\ b.path \in {"overlay", "color_for_id"}
         /\ a.seed = b.seed
         /\ a.id = b.id) => a.rgb = b.rgb

\* C8: seg_ids_to_colors returns a block of the input's shape in which a
\* voxel holding a non-zero ID i has colour rgb_from_segment_id(seed, i) and
\* a voxel holding 0 is black.
C8_ColorizeBlockPerVoxel ==
    call.fn = "seg_ids_to_colors" =>
        /\ DOMAIN call.out = DOMAIN call.seg
        /\ \A v \in DOMAIN call.seg :
              call.out[v] = IF call.seg[v] = Zero64 THEN Black
                            ELSE Rgb(call.seed, call.seg[v])

\* C9: the colour color_neurons gives the mesh of an ID equals the colour the
\* segmentation overlay (default seed) gives voxels of that ID.
C9_NeuronColorMatchesOverlay ==
    \A a, b \in seen :
        (/\ a.path = "neuron"
         /\ b.path = "overlay"
         /\ b.seed = DefaultSeed
         /\ a.id = b.id) => a.rgb = b.rgb

(***************************************************************************)
(* SpecAlign: the alignment of one image range, as either operator does it.*)
(***************************************************************************)
\* nm per voxel along x, y, z; every ratio between two of these is a power
\* of two
AlignResolutions == {<<8, 8, 40>>, <<16, 16, 40>>, <<4, 4, 20>>, <<32, 32, 80>>}

AlignPairs == {p \in (-1..MaxC) \X (-1..MaxC) : p[1] < p[2]}

ExampleRange == <<1000, 1008, 2000, 2008, 500, 501>>

AlignRanges ==
    {<<px[1], px[2], py[1], py[2], pz[1], pz[2]>> :
        px \in AlignPairs, py \in AlignPairs, pz \in AlignPairs}
    \cup {ExampleRange}

InitAlign ==
    /\ SceneIdle
    /\ seen = {}
    /\ \E rng \in AlignRanges, res \in AlignResolutions, res_seg \in AlignResolutions :
          call = [fn |-> "align", n |-> 0, rng |-> rng, resolution |-> res,
                  resolution_seg |-> res_seg, path |-> None,
                  ratio |-> None, out |-> None, back |-> None]

AlignInFetch ==
    /\ call.fn = "align" /\ call.n = 0
    /\ call' = [call EXCEPT
                   !.n = 1, !.path = "fetch_slices",
                   !.ratio = im2seg_res_ratio(call.resolution, call.resolution_seg),
                   !.out = im2seg_fetch(call.rng, call.resolution, call.resolution_seg)]
    /\ UNCHANGED <<sceneVars, seen>>

AlignInUpdate ==
    /\ call.fn = "align" /\ call.n = 0
    /\ call' = [call EXCEPT
                   !.n = 1, !.path = "update_images",
                   !.ratio = im2seg_res_ratio(call.resolution, call.resolution_seg),
                   !.out = im2seg_update(call.rng, call.resolution, call.resolution_seg)]
    /\ UNCHANGED <<sceneVars, seen>>

\* the same computation applied to its own result with the two resolutions
\* exchanged
AlignBack ==
    /\ call.fn = "align" /\ call.n = 1
    /\ call' = [call EXCEPT
                   !.n = 2,
                   !.back = IF call.path = "fetch_slices"
                            THEN im2seg_fetch(call.out, call.resolution_seg, call.resolution)
                            ELSE im2seg_update(call.out, call.resolution_seg, call.resolution)]
    /\ UNCHANGED <<sceneVars, seen>>

NextAlign == AlignInFetch \/ AlignInUpdate \/ AlignBack

SpecAlign == InitAlign /\ [][NextAlign]_vars

Aligned == call.fn = "align" /\ call.n >= 1

\* C2: the segmentation range computed from a non-degenerate image range
\* and positive resolutions is never degenerate: hi > lo on every axis.
C2_AlignNeverDegenerate ==
    (Aligned /\ NonDegenerate(call.rng)) => NonDegenerate(call.out)

\* C2's case: an axis whose two bounds floor to the same segmentation voxel
\* has been widened.
C2_Witness ==
    /\ Aligned
    /\ NonDegenerate(call.rng)
    /\ \E a \in 1..3 :
          LET ratio == im2seg_res_ratio(call.resolution, call.resolution_seg)[a]
          IN  /\ floor_div_ratio(Lo(call.rng, a), ratio)
                   = floor_div_ratio(Hi(call.rng, a), ratio)
              /\ Hi(call.out, a) = Lo(call.out, a) + 1

AlignedBack == call.fn = "align" /\ call.n = 2

AbsDiff(x, y) == IF x >= y THEN x - y ELSE y - x

RatioIs(r, k) == r[1] = k * r[2]

\* C10: image resolution (8,8,40), segmentation resolution (16,16,40), image
\* range (1000,1008,2000,2008,500,501): ratio (2,2,1), segmentation range
\* (500,504,1000,1004,500,501).
C10_AlignExample ==
    (/\ Aligned
     /\ call.rng = ExampleRange
     /\ call.resolution = <<8, 8, 40>>
     /\ call.resolution_seg = <<16, 16, 40>>)
    => /\ RatioIs(call.ratio[1], 2) /\ RatioIs(call.ratio[2], 2)
       /\ RatioIs(call.ratio[3], 1)
       /\ call.out = <<500, 504, 1000, 1004, 500, 501>>

C10_Witness ==
    /\ Aligned
    /\ call.path = "fetch_slices"
    /\ call.rng = ExampleRange
    /\ call.resolution = <<8, 8, 40>>
    /\ call.resolution_seg = <<16, 16, 40>>
    /\ call.out = <<500, 504, 1000, 1004, 500, 501>>

(***************************************************************************)
(* Spec: the add-on in a session.  The user connects, fetches slices into  *)
(* an empty scene, moves the plane created last or sets its "mip"          *)
(* property, and runs update_images.                                       *)
(***************************************************************************)
Idle == [op |-> "none", result |-> "none"]

Init ==
    /\ VOLUME_IMG = NoVolume
    /\ VOLUME_SEG = NoVolume
    /\ objects = <<>>
    /\ reads = <<>>
    /\ plan = <<>>
    /\ last = Idle
    /\ call = NoCall
    /\ seen = {}

\* connect.execute
Connect ==
    \E server_img \in {"", "img"}, server_seg \in {"", "seg"} :
        /\ VOLUME_IMG' = IF server_img # "" THEN CloudVolume(server_img) ELSE NoVolume
        /\ VOLUME_SEG' = IF server_img # ""
                         THEN IF server_seg # "" THEN CloudVolume(server_seg)
                              ELSE VOLUME_SEG     \* CloudVolume("") raises
                         ELSE NoVolume
        /\ last' = [op |-> "connect",
                    server_img |-> server_img, server_seg |-> server_seg,
                    result |-> IF server_img # "" /\ server_seg = ""
                               THEN "ERROR" ELSE "FINISHED"]
        /\ reads' = <<>>
        /\ plan' = <<>>
        /\ UNCHANGED <<objects, call, seen>>

InPlane == <<0, 1>>

\* the dialog's values: the upper bound along the slicing axis is free
Requests ==
    {[rng |-> [k \in 1..6 |-> IF (k + 1) \div 2 = axis_ix(axis)
                              THEN pair[2 - (k % 2)] ELSE InPlane[2 - (k % 2)]],
      coords |-> coords, mip |-> mip, axis |-> axis,
      blend_seg |-> blend_seg, shader |-> shader] :
        pair \in {<<0, hi>> : hi \in 0..MaxReq}, coords \in {"REAL", "VOXELS"},
        mip \in Levels, axis \in Axes, blend_seg \in BOOLEAN,
        shader \in {"PRINCIPLED", "SHADELESS"}}

\* fetch_slices.execute
FetchSlices ==
    /\ VOLUME_IMG # NoVolume
    /\ objects = <<>>
    /\ \E req \in Requests, fail \in 0..2 :
        /\ LET r == fetch_slices(req, VOLUME_IMG, VOLUME_SEG, fail)
           IN  /\ VOLUME_IMG' = r.img
               /\ VOLUME_SEG' = r.seg
               /\ objects' = objects \o r.planes
               /\ reads' = r.reads
               /\ last' = [op |-> "fetch_slices", result |-> r.result]
        /\ plan' = <<>>
        /\ UNCHANGED <<call, seen>>

\* displacements of a plane, in physical units
Translations == {ZeroVec, <<1, 0, 0>>, <<0, 0, 4>>}

\* the user moves the plane created last
MoveSlab ==
    /\ objects # <<>>
    /\ \E t \in Translations :
        /\ objects[Len(objects)].loc # t
        /\ objects' = [objects EXCEPT ![Len(objects)].loc = t]
        /\ last' = [op |-> "edit", result |-> "FINISHED"]
        /\ reads' = <<>>
        /\ plan' = <<>>
        /\ UNCHANGED <<VOLUME_IMG, VOLUME_SEG, call, seen>>

\* the user sets the "mip" property of the plane created last
SetSlabMip ==
    /\ objects # <<>>
    /\ \E m \in Levels :
        /\ objects[Len(objects)].mip # m
        /\ objects' = [objects EXCEPT ![Len(objects)].mip = m]
        /\ last' = [op |-> "edit", result |-> "FINISHED"]
        /\ reads' = <<>>
        /\ plan' = <<>>
        /\ UNCHANGED <<VOLUME_IMG, VOLUME_SEG, call, seen>>

\* update_images.execute, the read that raises drawn from `fails`
UpdateImagesFailing(fails) ==
    /\ VOLUME_IMG # NoVolume
    /\ \E fail \in fails :
        /\ LET r == update_images(objects, VOLUME_IMG, VOLUME_SEG, fail)
           IN  /\ VOLUME_IMG' = r.img
               /\ VOLUME_SEG' = r.seg
               /\ objects' = r.objects
               /\ reads' = r.reads
               /\ plan' = r.plan
               /\ last' = [op |-> "update_images", result |-> r.result,
                           read_failed |-> fail # 0 /\ fail <= Len(r.reads)]
        /\ UNCHANGED <<call, seen>>

UpdateImages == UpdateImagesFailing(0..2)

Next == Connect \/ FetchSlices \/ MoveSlab \/ SetSlabMip \/ UpdateImages

Spec == Init /\ [][Next]_vars

\* the level recorded for a slab: by the last re-sync, else by create_image_plane
RecordedLevel(ob) == IF ob.mip_old # NoMip THEN ob.mip_old ELSE ob.mip_built

\* the pass judged by the recorded range and level: entry e of the new plan
\* against the object as it was before the pass
Unchanged(e, ob) == e.rng = ob.rng /\ e.mip = RecordedLevel(ob)

\* C3: in every update pass, a slab whose recomputed range and level equal
\* the range and level recorded for it (by create_image_plane or by an
\* earlier pass) is reported "no update needed" and is not read.
C3_NoUpdateWhenUnchanged ==
    [][last'.op = "update_images" =>
          \A k \in DOMAIN plan' :
              Unchanged(plan'[k], objects[plan'[k].ob]) => ~plan'[k].read]_vars

ImgReads(rs) == SelectSeq(rs, LAMBDA r : r.vol = "img")

\* C4: in every update pass that ends normally, the image reads are exactly
\* one read of the recomputed range per slab whose recomputed range or level
\* differs from the recorded one, in the order of the slabs, and none else.
C4_ReadsExactlyForStale ==
    [][(last'.op = "update_images" /\ last'.result = "FINISHED") =>
          LET stale == SelectSeq(plan', LAMBDA e : ~Unchanged(e, objects[e.ob]))
          IN  /\ Len(plan') = Len(objects)
              /\ Len(ImgReads(reads')) = Len(stale)
              /\ \A k \in DOMAIN stale :
                     ImgReads(reads')[k] = Read("img", stale[k].mip, stale[k].rng)]_vars

SameFrame(ob, ob2) ==
    /\ ob2.verts = ob.verts
    /\ ob2.loc = ob.loc
    /\ ob2.axis = ob.axis
    /\ ob2.shader = ob.shader
    /\ ob2.show_seg = ob.show_seg

\* C5: an update pass leaves every object's vertex positions, world
\* transform, slice axis, shader style and overlay flag as they were, and
\* neither adds nor removes objects.
C5_UpdateKeepsFrame ==
    [][last'.op = "update_images" =>
          /\ Len(objects') = Len(objects)
          /\ \A i \in DOMAIN objects : SameFrame(objects[i], objects'[i])]_vars

\* a pass has just re-synced a slab that the user had moved
C5_Witness ==
    /\ last.op = "update_images"
    /\ \E k \in DOMAIN plan :
           LET ob == objects[plan[k].ob]
           IN  /\ plan[k].read
               /\ ob.loc # ZeroVec
               /\ ob.rng = plan[k].rng
               /\ ob.mip_old = plan[k].mip
               /\ ob.tex.img = Read("img", plan[k].mip, plan[k].rng)

(***************************************************************************)
(* SpecFetch: one fetch_slices call with any request over -1..MaxF.        *)
(***************************************************************************)
FetchRequests ==
    {[rng |-> rng, coords |-> coords, mip |-> mip, axis |-> axis,
      blend_seg |-> blend_seg, shader |-> "PRINCIPLED"] :
        rng \in [1..6 -> -1..MaxF], coords \in {"REAL", "VOXELS"},
        mip \in Levels, axis \in Axes, blend_seg \in BOOLEAN}

InitFetch ==
    /\ VOLUME_IMG = CloudVolume("img")
    /\ VOLUME_SEG = CloudVolume("seg")
    /\ objects = <<>>
    /\ reads = <<>>
    /\ plan = <<>>
    /\ last = Idle
    /\ \E req \in FetchRequests :
          call = [fn |-> "fetch_slices", n |-> 0, req |-> req, fail |-> 0]
    /\ seen = {}

FetchRequested ==
    /\ call.n = 0
    /\ \E fail \in 0..2 :
        LET r == fetch_slices(call.req, VOLUME_IMG, VOLUME_SEG, fail)
        IN  /\ VOLUME_IMG' = r.img
            /\ VOLUME_SEG' = r.seg
            /\ objects' = r.planes
            /\ reads' = r.reads
            /\ last' = [op |-> "fetch_slices", result |-> r.result,
                        i_segs |-> r.i_segs]
            /\ call' = [call EXCEPT !.n = 1, !.fail = fail]
    /\ UNCHANGED <<plan, seen>>

NextFetch == FetchRequested

SpecFetch == InitFetch /\ [][NextFetch]_vars

\* C1: whatever six integers are requested, in either coordinate mode, the
\* range read from the image volume, and the range recorded on every plane
\* created, has lo < hi on every axis.
C1_FetchedRangeNonDegenerate ==
    last.op = "fetch_slices" =>
        /\ \A k \in DOMAIN reads : reads[k].vol = "img" => NonDegenerate(reads[k].rng)
        /\ \A i \in DOMAIN objects : NonDegenerate(objects[i].rng)

(***************************************************************************)
(* SpecCoord: physical coordinates to voxels and back, as fetch_slices and *)
(* create_image_plane do it.                                               *)
(***************************************************************************)
CoordResolutions == {<<2, 2, 4>>, <<4, 4, 4>>, <<8, 8, 40>>, <<3, 5, 7>>}

InitCoord ==
    /\ SceneIdle
    /\ seen = {}
    /\ \E p \in -MaxP..MaxP, q \in -MaxP..MaxP, res \in CoordResolutions :
          call = [fn |-> "coords", n |-> 0, rng |-> <<p, q, p, q, p, q>>,
                  resolution |-> res, vxl |-> None, phys |-> None]

ToVoxels ==
    /\ call.fn = "coords" /\ call.n = 0
    /\ call' = [call EXCEPT !.n = 1,
                            !.vxl = to_voxels(call.rng, "REAL", call.resolution)]
    /\ UNCHANGED <<sceneVars, seen>>

\* the two corners of the voxel range, back in physical units
ToPhysical ==
    /\ call.fn = "coords" /\ call.n = 1
    /\ call' = [call EXCEPT
                   !.n = 2,
                   !.phys = <<to_physical(<<call.vxl[1], call.vxl[3], call.vxl[5]>>,
                                          call.resolution),
                              to_physical(<<call.vxl[2], call.vxl[4], call.vxl[6]>>,
                                          call.resolution)>>]
    /\ UNCHANGED <<sceneVars, seen>>

NextCoord == ToVoxels \/ ToPhysical

SpecCoord == InitCoord /\ [][NextCoord]_vars

\* C12: a physical coordinate converted to voxels and back, (p // r) * r,
\* differs from p by less than the resolution r of its axis, negative p
\* included.
C12_VoxelRoundTripWithinResolution ==
    (call.fn = "coords" /\ call.n = 2) =>
        \A a \in 1..3 :
            /\ AbsDiff(call.phys[1][a], Lo(call.rng, a)) < call.resolution[a]
            /\ AbsDiff(call.phys[2][a], Hi(call.rng, a)) < call.resolution[a]

\* C12's case: a negative coordinate that is not a multiple of the resolution
\* has made the round trip
C12_Witness ==
    /\ call.fn = "coords" /\ call.n = 2
    /\ \E a \in 1..3 : Lo(call.rng, a) < 0 /\ call.phys[1][a] < Lo(call.rng, a)

\* SpecFetch: the call has run
Fetched == call.fn = "fetch_slices" /\ call.n = 1

\* the widened image range of the request, as execute computes it
FetchedRange == request_range(call.req, resolution_at(VOLUME_IMG, call.req.mip))

\* the read with this number raised
ReadFailed == Fetched /\ call.fail >= 1 /\ call.fail <= Len(reads)

\* C13: when no read fails, fetch_slices creates exactly hi - lo planes,
\* [lo, hi) being the widened image range along the slicing axis, and the
\* i-th plane has depth lo + i.  Stated for the requests whose widened range
\* has lo < hi on every axis.
C13_OnePlanePerVoxel ==
    (Fetched /\ ~ReadFailed /\ NonDegenerate(FetchedRange)) =>
        LET a == axis_ix(call.req.axis)
        IN  /\ Len(objects) = Hi(FetchedRange, a) - Lo(FetchedRange, a)
            /\ \A i \in DOMAIN objects : objects[i].depth = Lo(FetchedRange, a) + (i - 1)

\* C14: when the image read or the segmentation read raises, fetch_slices
\* ends with the exception, has attempted each read once, and has created
\* no plane.
C14_ReadFailureAborts ==
    ReadFailed =>
        /\ last.result = "ERROR"
        /\ objects = <<>>
        /\ Len(reads) = call.fail
        /\ reads[1].vol = "img"
        /\ \A i, j \in DOMAIN reads : i # j => reads[i].vol # reads[j].vol

\* C14's case: the segmentation read raised after the image read succeeded
C14_Witness ==
    /\ ReadFailed
    /\ call.fail = 2
    /\ reads[2].vol = "seg"
    /\ Extent(reads[1].rng, axis_ix(call.req.axis)) >= 2

(***************************************************************************)
(* fetch_mesh and color_neurons                                            *)
(***************************************************************************)
\* the diffuse colour of a new material, (0.8, 0.8, 0.8), over ColorDen
NewMaterialColor == <<104040, 104040, 104040>>

\* create_mesh: the object of one neuron
create_mesh(id) == [type |-> "NEURON", id |-> id, color |-> NewMaterialColor]

\* The whole of fetch_mesh.execute: ids are the IDs typed in, available the
\* IDs VOLUME_SEG.mesh.get has a mesh for; the library either returns the
\* mapping of the available ones or, with `raises`, raises on a missing ID.
\* The operator has no output besides the objects and the exception.
fetch_mesh(ids, available, seg, mip, raises) ==
    LET seg1   == [seg EXCEPT !.mip = mip]
        meshes == SortLimbs(ids \cap available)
    IN  IF raises /\ ids \ available # {}
        THEN [seg |-> seg1, meshes |-> <<>>, reported |-> {}, result |-> "ERROR"]
        ELSE [seg |-> seg1,
              meshes |-> [k \in 1..Len(meshes) |-> create_mesh(meshes[k])],
              reported |-> {}, result |-> "FINISHED"]

\* color_neurons.execute: every NEURON object gets the colour of its ID
color_neurons(objs) ==
    [i \in DOMAIN objs |->
        IF objs[i].type = "NEURON"
        THEN [objs[i] EXCEPT !.color = Rgb(DefaultSeed, objs[i].id)]
        ELSE objs[i]]

(***************************************************************************)
(* SpecOps: the operators of the add-on in any order, each creating        *)
(* operator used once.                                                     *)
(***************************************************************************)
MeshIds == {<<1, 0, 0, 0>>, <<1, 0, 1, 0>>, <<0, 0, 0, 32>>}

Created(type) == \E i \in DOMAIN objects : objects[i].type = type

\* fetch_mesh.execute with the IDs typed in and the IDs with a mesh drawn
\* from `pool`
FetchMeshFrom(pool) ==
    /\ VOLUME_SEG # NoVolume
    /\ ~Created("NEURON")
    /\ \E ids \in SUBSET pool \ {{}}, available \in SUBSET pool,
          raises \in BOOLEAN :
          LET r == fetch_mesh(ids, available, VOLUME_SEG, 0, raises)
          IN  /\ VOLUME_SEG' = r.seg
              /\ objects' = objects \o r.meshes
              /\ last' = [op |-> "fetch_mesh", result |-> r.result,
                          reported |-> r.reported, ids |-> ids,
                          available |-> available]
    /\ reads' = <<>>
    /\ plan' = <<>>
    /\ UNCHANGED <<VOLUME_IMG, call, seen>>

FetchMesh == FetchMeshFrom(MeshIds)

\* color_neurons.execute
ColorNeurons ==
    /\ objects' = color_neurons(objects)
    /\ last' = [op |-> "color_neurons", result |-> "FINISHED"]
    /\ reads' = <<>>
    /\ plan' = <<>>
    /\ UNCHANGED <<VOLUME_IMG, VOLUME_SEG, call, seen>>

\* VOLUME_IMG.scales[0]["size"] and ["voxel_offset"]
VolumeSize == <<4, 4, 2>>

VoxelOffset == <<0, 0, 0>>

\* show_bounds.execute: the "VolumeBounds" cube or empty, with twice its
\* location and scale in physical units
show_bounds(img, object_type) ==
    LET size   == to_physical(VolumeSize, resolution_at(img, 0))
        offset == to_physical(VoxelOffset, resolution_at(img, 0))
    IN  [type |-> "BOUNDS", kind |-> object_type,
         loc2 |-> <<2 * offset[1] + size[1], 2 * offset[2] + size[2],
                    2 * offset[3] + size[3]>>,
         scale2 |-> size]

ShowBounds ==
    /\ VOLUME_IMG # NoVolume
    /\ ~Created("BOUNDS")
    /\ \E object_type \in {"MESH"} :
          objects' = Append(objects, show_bounds(VOLUME_IMG, object_type))
    /\ last' = [op |-> "show_bounds", result |-> "FINISHED"]
    /\ reads' = <<>>
    /\ plan' = <<>>
    /\ UNCHANGED <<VOLUME_IMG, VOLUME_SEG, call, seen>>

\* the most planes of a scene before another fetch_slices
MaxSlabs == 2

Slabs(objs) == {i \in DOMAIN objs : objs[i].type = "SLAB"}

OpsRequests ==
    [rng : {<<0, 1, 0, 1, 0, 1>>}, coords : {"VOXELS"},
     mip : {0}, axis : {"z"}, blend_seg : {TRUE}, shader : {"PRINCIPLED"}]

\* fetch_slices.execute in a scene that may hold objects already
FetchMoreSlices ==
    /\ VOLUME_IMG # NoVolume
    /\ Cardinality(Slabs(objects)) < MaxSlabs
    /\ \E req \in OpsRequests :
          LET r == fetch_slices(req, VOLUME_IMG, VOLUME_SEG, 0)
          IN  /\ VOLUME_IMG' = r.img
              /\ VOLUME_SEG' = r.seg
              /\ objects' = objects \o r.planes
              /\ reads' = r.reads
              /\ last' = [op |-> "fetch_slices", result |-> r.result]
    /\ plan' = <<>>
    /\ UNCHANGED <<call, seen>>

\* the six fetch_slices calls of fetch_cube.execute: top, bottom, left,
\* right, front, back
cube_requests(req) ==
    LET x1 == req.rng[1] x2 == req.rng[2] y1 == req.rng[3]
        y2 == req.rng[4] z1 == req.rng[5] z2 == req.rng[6]
        side(rng, axis) == [req EXCEPT !.rng = rng, !.axis = axis]
    IN  <<side(<<x1, x2, y1, y2, z1, z1 + 1>>, "z"),
          side(<<x1, x2, y1, y2, z2 - 1, z2>>, "z"),
          side(<<x1, x2, y1, y1 + 1, z1, z2>>, "y"),
          side(<<x1, x2, y2 - 1, y2, z1, z2>>, "y"),
          side(<<x1, x1 + 1, y1, y2, z1, z2>>, "x"),
          side(<<x2 - 1, x2, y1, y2, z1, z2>>, "x")>>

RECURSIVE fetch_cube_loop(_, _, _)
\* st is [img, seg, reads, planes, result]; a call that raises ends the loop
fetch_cube_loop(reqs, k, st) ==
    IF k > Len(reqs) \/ st.result = "ERROR" THEN st
    ELSE LET r == fetch_slices(reqs[k], st.img, st.seg, 0)
         IN  fetch_cube_loop(reqs, k + 1,
                             [img |-> r.img, seg |-> r.seg,
                              reads |-> st.reads \o r.reads,
                              planes |-> st.planes \o r.planes,
                              result |-> r.result])

\* The whole of fetch_cube.execute
fetch_cube(req, img, seg) ==
    fetch_cube_loop(cube_requests(req), 1,
                    [img |-> img, seg |-> seg, reads |-> <<>>, planes |-> <<>>,
                     result |-> "FINISHED"])

CubeRequests ==
    [rng : {<<0, 1, 0, 1, 0, 1>>}, coords : {"VOXELS"}, mip : {0}, axis : {"z"},
     blend_seg : BOOLEAN, shader : {"PRINCIPLED"}]

FetchCube ==
    /\ VOLUME_IMG # NoVolume
    /\ Slabs(objects) = {}
    /\ \E req \in CubeRequests :
          LET r == fetch_cube(req, VOLUME_IMG, VOLUME_SEG)
          IN  /\ VOLUME_IMG' = r.img
              /\ VOLUME_SEG' = r.seg
              /\ objects' = objects \o r.planes
              /\ reads' = r.reads
              /\ last' = [op |-> "fetch_cube", result |-> r.result]
    /\ plan' = <<>>
    /\ UNCHANGED <<call, seen>>

\* update_images.execute with every read answered
UpdateImagesAnswered == UpdateImagesFailing({0})

\* fetch_mesh.execute for one ID
FetchOneMesh == FetchMeshFrom({<<1, 0, 1, 0>>})

NextOps ==
    \/ Connect
    \/ ShowBounds
    \/ FetchMoreSlices
    \/ FetchCube
    \/ UpdateImagesAnswered
    \/ FetchOneMesh
    \/ ColorNeurons

SpecOps == Init /\ [][NextOps]_vars

(***************************************************************************)
(* SpecMesh: connect, fetch_mesh and color_neurons.                        *)
(***************************************************************************)
NextMesh == Connect \/ FetchMesh \/ ColorNeurons

SpecMesh == Init /\ [][NextMesh]_vars

\* C15: after fetch_mesh, every requested ID the volume has no mesh for is
\* reported as a mismatch, and every requested ID it has a mesh for has its
\* object.
C15_MissingMeshReported ==
    last.op = "fetch_mesh" =>
        /\ \A id \in last.ids \ last.available : id \in last.reported
        /\ \A id \in last.ids \cap last.available :
               \E i \in DOMAIN objects :
                   objects[i].type = "NEURON" /\ objects[i].id = id

(***************************************************************************)
(* SpecRes: the first half of fetch_slices.execute (lines 532-594) on      *)
(* volumes whose scales hold any resolution, a non-positive one included.  *)
(***************************************************************************)
\* VOLUME_SEG.scales has no entry at the requested level
NoResolution == <<>>

NonPositive(resolution) == \E k \in 1..3 : resolution[k] <= 0

HasZero(resolution) == \E k \in 1..3 : resolution[k] = 0

\* int(x // 0.0): the quotient is nan for x = 0 and infinite otherwise, and
\* int() raises on either
int_of_division_by_zero(x) == IF x = 0 THEN "ValueError" ELSE "OverflowError"

\* Lines 532-594 on a request in physical coordinates: the reads issued and
\* the exception that ended execute, None if none did.  Python's // floors
\* for a negative divisor as \div does, and raises on an integer zero.
fetch_ranges(req, resolution, resolution_seg) ==
    IF HasZero(resolution)
    THEN [reads |-> <<>>, error |-> "ZeroDivisionError"]
    ELSE LET rng      == request_range(req, resolution)
             img_read == Read("img", req.mip, rng)
         IN  IF ~req.blend_seg
             THEN [reads |-> <<img_read>>, error |-> None]
             ELSE IF resolution_seg = NoResolution
             THEN [reads |-> <<img_read>>, error |-> "IndexError"]
             ELSE IF HasZero(resolution_seg)
             THEN LET k == SetMin({j \in 1..3 : resolution_seg[j] = 0})
                  IN  [reads |-> <<img_read>>,
                       error |-> int_of_division_by_zero(rng[2 * k - 1])]
             ELSE [reads |-> <<img_read,
                                Read("seg", req.mip,
                                     im2seg_fetch(rng, resolution, resolution_seg))>>,
                   error |-> None]

ResImages == {<<2, 2, 4>>, <<0, 2, 4>>, <<2, -2, 4>>}

ResSegs == {<<4, 4, 2>>, <<4, 0, 2>>, <<4, 4, -2>>, NoResolution}

ResRequests ==
    [rng : {<<p, q, p, q, p, q>> : p \in -1..1, q \in {0, 4}}, coords : {"REAL"},
     mip : {0}, axis : {"z"}, blend_seg : BOOLEAN, shader : {"PRINCIPLED"}]

InitRes ==
    /\ VOLUME_IMG = CloudVolume("img")
    /\ VOLUME_SEG = CloudVolume("seg")
    /\ objects = <<>>
    /\ reads = <<>>
    /\ plan = <<>>
    /\ last = Idle
    /\ seen = {}
    /\ \E req \in ResRequests, resolution \in ResImages, resolution_seg \in ResSegs :
          call = [fn |-> "fetch_ranges", n |-> 0, req |-> req,
                  resolution |-> resolution, resolution_seg |-> resolution_seg,
                  error |-> None]

FetchRanges ==
    /\ call.fn = "fetch_ranges"
    /\ call.n = 0
    /\ LET r == fetch_ranges(call.req, call.resolution, call.resolution_seg)
       IN  /\ reads' = r.reads
           /\ call' = [call EXCEPT !.n = 1, !.error = r.error]
           /\ last' = [op |-> "fetch_slices",
                       result |-> IF r.error = None THEN "FINISHED" ELSE "ERROR"]
    /\ UNCHANGED <<VOLUME_IMG, VOLUME_SEG, objects, plan, seen>>

NextRes == FetchRanges

SpecRes == InitRes /\ [][NextRes]_vars

\* C16: a non-positive image resolution ends the conversion of physical
\* coordinates with InvalidResolution, a non-positive or missing segmentation
\* resolution ends the alignment with IncompatibleResolution, and in both
\* cases no read was issued.
C16_NonPositiveResolutionRejected ==
    (call.fn = "fetch_ranges" /\ call.n = 1) =>
        /\ NonPositive(call.resolution) =>
               call.error = "InvalidResolution" /\ reads = <<>>
        /\ (/\ ~NonPositive(call.resolution)
            /\ call.req.blend_seg
            /\ (call.resolution_seg = NoResolution \/ NonPositive(call.resolution_seg))) =>
               call.error = "IncompatibleResolution" /\ reads = <<>>

(***************************************************************************)
(* SpecHash: the hash of rgb_from_segment_id over seeds and 64-bit IDs.    *)
(***************************************************************************)
\* the 16-bit limbs seeds and IDs are built from
HashLimbs == {0, 1, 32768, 65535}

HashSeeds == {<<a, b>> : a \in {1234, 65535}, b \in {0, 65535}}

HashIds == {<<a, b, c, d>> : a \in HashLimbs, b \in HashLimbs,
                             c \in HashLimbs, d \in HashLimbs}

\* lines 1506-1509 tabulated over the drawn inputs (evaluated once): result2
\* and the values assigned on the way to it
HashTable ==
    {<<seed, id, SegmentHash(seed, id),
       hash_trace(seed, id) \o hash_trace(hash_function(seed, id), ShiftRight32(id))>> :
        seed \in HashSeeds, id \in HashIds}

HashRow(seed, id) == CHOOSE t \in HashTable : t[1] = seed /\ t[2] = id

InitHash ==
    /\ SceneIdle
    /\ seen = {}
    /\ \E seed \in HashSeeds, id \in HashIds :
          call = [fn |-> "hash", n |-> 0, seed |-> seed, id |-> id,
                  out |-> <<0, 0>>, steps |-> <<>>]

\* lines 1506-1509: result = hash_function(color_seed, segment_id),
\* result2 = hash_function(result, segment_id >> 32)
HashSegmentId ==
    /\ call.fn = "hash"
    /\ call.n = 0
    /\ LET row == HashRow(call.seed, call.id)
       IN  call' = [call EXCEPT !.n = 1, !.out = row[3], !.steps = row[4]]
    /\ UNCHANGED <<sceneVars, seen>>

NextHash == HashSegmentId

SpecHash == InitHash /\ [][NextHash]_vars

\* the reference mix: 32-bit words as two limbs, a rotation as a permutation
\* of the bit positions
RotateLeft32(v, n) == FromBits({(i + n) % 32 : i \in Bits(v)}, 2)

Mod32(a) == <<a[1], a[2]>>

mix32(state, value) ==
    LET v1 == Mod32(MulLimbs(value, k1))
        v2 == RotateLeft32(v1, 15)
        v3 == Mod32(MulLimbs(v2, k2))
        s1 == FromBits(XorBits(Bits(state), Bits(v3)), 2)
        s2 == RotateLeft32(s1, 13)
    IN  Mod32(AddLimbs(MulLimbs(s2, <<5, 0>>), HashAdd))

Low32(id) == <<id[1], id[2]>>

High32(id) == <<id[3], id[4]>>

IsWord32(w) == Len(w) = 2 /\ \A k \in 1..2 : w[k] \in 0..(Base - 1)

Hashed == call.fn = "hash" /\ call.n = 1

\* C17: the hash computed from the full 64-bit ID and then from ID >> 32
\* equals mix32(mix32(seed, ID mod 2^32), ID div 2^32), and every value
\* assigned on the way is a 32-bit word.
C17_HashIsTwoRoundMix ==
    Hashed =>
        /\ call.out = mix32(mix32(call.seed, Low32(call.id)), High32(call.id))
        /\ \A k \in DOMAIN call.steps : IsWord32(call.steps[k])

\* an ID with something in both halves has been hashed
C17_Witness ==
    /\ Hashed
    /\ Low32(call.id) # <<0, 0>>
    /\ High32(call.id) = <<65535, 32768>>
    /\ Len(call.steps) = 14

\* the tracked properties of a slab
SlabMetadata(ob) ==
    <<ob.mip, ob.axis, ob.depth, ob.shader, ob.show_seg, ob.rng, ob.mip_old>>

\* entry of the plan of the pass for object i that a read was issued for
ReSynced(entries, i) == \E k \in DOMAIN entries : entries[k].ob = i /\ entries[k].read

\* C18: over connect, show_bounds, fetch_slices, fetch_cube, update_images,
\* fetch_mesh and color_neurons, objects are only ever appended; a slab comes
\* into being only in fetch_slices and fetch_cube; the metadata of an
\* existing slab changes only in an update_images pass that re-syncs that
\* slab; an object without slab metadata never gains any and is left as it
\* is by update_images.
C18_MetadataWrittenOnlyByCreationAndReSync ==
    [][/\ Len(objects') >= Len(objects)
       /\ \A i \in DOMAIN objects :
             /\ objects'[i].type = "SLAB" <=> objects[i].type = "SLAB"
             /\ (/\ objects[i].type = "SLAB"
                 /\ SlabMetadata(objects'[i]) # SlabMetadata(objects[i])) =>
                    last'.op = "update_images" /\ ReSynced(plan', i)
             /\ (objects[i].type # "SLAB" /\ last'.op = "update_images") =>
                    objects'[i] = objects[i]
       /\ \A i \in DOMAIN objects' \ DOMAIN objects :
             objects'[i].type = "SLAB" => last'.op \in {"fetch_slices", "fetch_cube"}
      ]_vars

\* a scene with a slab that was re-synced, a slab created after that, a
\* neuron and the bounds
C18_Witness ==
    /\ \E i, j \in Slabs(objects) :
          i < j /\ objects[i].mip_old # NoMip /\ objects[j].mip_old = NoMip
    /\ Created("NEURON")
    /\ Created("BOUNDS")
    /\ last.op = "update_images"

\* the overlay was blended in: both reads were answered
Blended == Fetched /\ ~ReadFailed /\ Len(reads) = 2

\* m = floor(i * b / a) for positive a: m * a <= i * b < (m + 1) * a
IsFloorOfProduct(m, i, b, a) == m * a <= i * b /\ i * b < (m + 1) * a

\* C19: with the overlay, the image cross-section i of the block is paired
\* with the segmentation cross-section floor(i * ratio[axis]), the ratio being
\* the segmentation resolution over the image resolution along the axis.
C19_PairingIsFloorOfProduct ==
    Blended =>
        LET a == axis_ix(call.req.axis)
        IN  \A k \in DOMAIN last.i_segs :
               IsFloorOfProduct(last.i_segs[k], k - 1,
                                resolution_at(VOLUME_SEG, call.req.mip)[a],
                                resolution_at(VOLUME_IMG, call.req.mip)[a])

\* two cross-sections along z at mip 0, where the ratio is 1/2, paired and
\* imported
C19_Witness ==
    /\ Blended
    /\ call.req.axis = "z"
    /\ call.req.mip = 0
    /\ Len(last.i_segs) = 2
    /\ Len(objects) = 2

\* C20: every i_seg computed for an image cross-section lies inside the
\* segmentation block that was read: 0 <= i_seg < hi - lo of the block along
\* the slicing axis.  Stated for the requests whose widened image range has
\* lo < hi on every axis.
C20_PairingInsideBlock ==
    (Blended /\ NonDegenerate(FetchedRange)) =>
        LET a == axis_ix(call.req.axis)
        IN  \A k \in DOMAIN last.i_segs :
               /\ 0 <= last.i_segs[k]
               /\ last.i_segs[k] < Extent(reads[2].rng, a)

\* the corners of ob converted as to_voxels converts: floor of the physical
\* coordinate over the resolution, then min and max per axis
FloorRange(ob, resolution) ==
    LET c(n, a) == world_vertex(ob, n)[a] \div resolution[a]
        col(a)  == {c(1, a), c(2, a), c(3, a), c(4, a)}
    IN  <<SetMin(col(1)), SetMax(col(1)), SetMin(col(2)), SetMax(col(2)),
          SetMin(col(3)), SetMax(col(3))>>

\* C21: the range an update pass computes for a slab is the per-axis min and
\* max of its corners converted by floor division by the resolution of the
\* slab's level (widened where an axis is empty).
C21_UpdateRangeIsFloorOfCorners ==
    last.op = "update_images" =>
        \A k \in DOMAIN plan :
            plan[k].rng = widen(FloorRange(objects[plan[k].ob],
                                           resolution_at(VOLUME_IMG, plan[k].mip)))

\* C22: for the same image range and the same pair of resolutions, the
\* segmentation range of the fetch path and that of the update path are the
\* same, whichever of the two was taken.
C22_PathsAgreeOnAlignment ==
    Aligned =>
        /\ call.path = "fetch_slices" =>
               call.out = im2seg_update(call.rng, call.resolution, call.resolution_seg)
        /\ call.path = "update_images" =>
               call.out = im2seg_fetch(call.rng, call.resolution, call.resolution_seg)

\* the update path aligned a range with a negative bound and had to widen
C22_Witness ==
    /\ Aligned
    /\ call.path = "update_images"
    /\ call.rng[1] < 0
    /\ call.out # im2seg_fetch_nowiden(call.rng, call.resolution, call.resolution_seg)

(***************************************************************************)
(* SpecCube: one fetch_cube on a request in voxel coordinates.             *)
(***************************************************************************)
\* the largest coordinate of a cube request
MaxCube == 2

CubePairs == {<<lo, hi>> : lo \in -1..MaxCube, hi \in -1..MaxCube}

CubeAnyRequests ==
    {[rng |-> <<x[1], x[2], y[1], y[2], z[1], z[2]>>, coords |-> "VOXELS",
      mip |-> mip, axis |-> "z", blend_seg |-> blend_seg, shader |-> shader] :
        x \in {p \in CubePairs : p[1] < p[2]},
        y \in {p \in CubePairs : p[1] < p[2]},
        z \in {p \in CubePairs : p[1] < p[2]},
        mip \in Levels, blend_seg \in BOOLEAN,
        shader \in {"PRINCIPLED", "SHADELESS"}}

InitCube ==
    /\ VOLUME_IMG = CloudVolume("img")
    /\ VOLUME_SEG = CloudVolume("seg")
    /\ objects = <<>>
    /\ reads = <<>>
    /\ plan = <<>>
    /\ last = Idle
    /\ seen = {}
    /\ \E req \in CubeAnyRequests : call = [fn |-> "fetch_cube", n |-> 0, req |-> req]

\* fetch_cube.execute
CubeRequested ==
    /\ call.fn = "fetch_cube"
    /\ call.n = 0
    /\ LET r == fetch_cube(call.req, VOLUME_IMG, VOLUME_SEG)
       IN  /\ VOLUME_IMG' = r.img
           /\ VOLUME_SEG' = r.seg
           /\ objects' = r.planes
           /\ reads' = r.reads
           /\ last' = [op |-> "fetch_cube", result |-> r.result]
    /\ call' = [call EXCEPT !.n = 1]
    /\ UNCHANGED <<plan, seen>>

NextCube == CubeRequested

SpecCube == InitCube /\ [][NextCube]_vars

CubeFetched == call.fn = "fetch_cube" /\ call.n = 1

\* the slab is the face of the request at `depth` along `axis`: one voxel
\* thick there and the full request on the two other axes
IsFace(ob, rng, axis, depth) ==
    /\ ob.type = "SLAB"
    /\ ob.axis = axis
    /\ ob.depth = depth
    /\ \A a \in 1..3 :
          IF a = axis_ix(axis)
          THEN Lo(ob.rng, a) = depth /\ Hi(ob.rng, a) = depth + 1
          ELSE Lo(ob.rng, a) = Lo(rng, a) /\ Hi(ob.rng, a) = Hi(rng, a)

\* C23: fetch_cube on a request in voxel coordinates with lo < hi on every
\* axis creates exactly six slabs: the faces at z1 and z2 - 1, at y1 and
\* y2 - 1, at x1 and x2 - 1, in that order.
C23_CubeIsSixFaces ==
    CubeFetched =>
        LET rng == call.req.rng
        IN  /\ Len(objects) = 6
            /\ IsFace(objects[1], rng, "z", rng[5])
            /\ IsFace(objects[2], rng, "z", rng[6] - 1)
            /\ IsFace(objects[3], rng, "y", rng[3])
            /\ IsFace(objects[4], rng, "y", rng[4] - 1)
            /\ IsFace(objects[5], rng, "x", rng[1])
            /\ IsFace(objects[6], rng, "x", rng[2] - 1)

\* the same for the requests with the PRINCIPLED shader
C23_CubeIsSixFacesPrincipled ==
    (CubeFetched /\ call.req.shader = "PRINCIPLED") => C23_CubeIsSixFaces

\* C24: every slab fetch_slices has just created records the range that an
\* update pass recomputes from its geometry at the slab's level.
C24_RecordedRangeIsRecomputedRange ==
    last.op = "fetch_slices" =>
        \A i \in DOMAIN objects :
            objects[i].rng = recomputed_range(objects[i],
                                              resolution_at(VOLUME_IMG, objects[i].mip))

\* C25: an update pass in which no read raised leaves every slab up to date:
\* a second pass right after it, with no edit in between, issues no read and
\* changes no object.
C25_UpdateIsIdempotent ==
    [][(/\ last.op = "update_images"
        /\ ~last.read_failed
        /\ last'.op = "update_images") =>
           reads' = <<>> /\ objects' = objects]_vars

\* the same for a first pass that ran to its end
C25_IdempotentAfterFinishedPass ==
    [][(/\ last.op = "update_images"
        /\ last.result = "FINISHED"
        /\ last'.op = "update_images") =>
           reads' = <<>> /\ objects' = objects]_vars

\* C26: a slab whose metadata records the overlay as enabled has the mix
\* stage in its material.
C26_ShowSegImpliesMixStage ==
    \A i \in DOMAIN objects :
        (objects[i].type = "SLAB" /\ objects[i].show_seg) => objects[i].has_mix

\* the slab the pass was re-syncing when it ended
LastPlanned(entries) == entries[Len(entries)].ob

\* C27: when a read raises while update_images re-syncs a slab, the range and
\* the level recorded on that slab stay as they were, the slab is still stale
\* against what the pass recomputed, and the next pass, if nothing is edited
\* in between, reads for that slab again.
C27_FailedReadLeavesSlabStale ==
    [][/\ (last'.op = "update_images" /\ last'.read_failed) =>
              LET i == LastPlanned(plan')
              IN  /\ objects'[i].rng = objects[i].rng
                  /\ objects'[i].mip_old = objects[i].mip_old
                  /\ ~no_update_needed(objects'[i], plan'[Len(plan')].rng,
                                       plan'[Len(plan')].mip)
       /\ (/\ last.op = "update_images"
           /\ last.read_failed
           /\ last'.op = "update_images") =>
              \E k \in DOMAIN plan' : plan'[k].ob = LastPlanned(plan) /\ plan'[k].read
      ]_vars

\* the segmentation read of a re-sync raised, for a slab that had been moved
C27_Witness ==
    /\ last.op = "update_images"
    /\ last.read_failed
    /\ Len(reads) = 2
    /\ reads[2].vol = "seg"
    /\ objects[LastPlanned(plan)].loc # ZeroVec

\* C28: for a non-degenerate image range the aligned segmentation range
\* covers it in physical units on every axis:
\* seg_lo * seg_res <= img_lo * img_res and img_hi * img_res <= seg_hi * seg_res.
C28_AlignedRangeCoversImageRange ==
    (Aligned /\ NonDegenerate(call.rng)) =>
        \A a \in 1..3 :
            /\ Lo(call.out, a) * call.resolution_seg[a] <= Lo(call.rng, a) * call.resolution[a]
            /\ Hi(call.rng, a) * call.resolution[a] <= Hi(call.out, a) * call.resolution_seg[a]

\* C29: after a connect that finished, a segmentation volume is configured
\* exactly when a non-empty segmentation URL was given, and an image volume
\* exactly when a non-empty image URL was given.
C29_VolumesFollowTheirOwnUrl ==
    (last.op = "connect" /\ last.result = "FINISHED") =>
        /\ (VOLUME_SEG # NoVolume) <=> (last.server_seg # "")
        /\ (VOLUME_IMG # NoVolume) <=> (last.server_img # "")

(***************************************************************************)
(* SpecLevels: fetch_slices, fetch_cube, update_images and fetch_mesh in   *)
(* any order at either level, with both volumes connected.                 *)
(***************************************************************************)
\* one box, typed in physical units
LevelBoxes == {[rng |-> <<0, 4, 0, 4, 0, 4>>, coords |-> "REAL"]}

LevelRequests ==
    {[rng |-> b.rng, coords |-> b.coords, mip |-> mip, axis |-> "z",
      blend_seg |-> TRUE, shader |-> "PRINCIPLED"] : b \in LevelBoxes, mip \in Levels}

InitLevels ==
    /\ VOLUME_IMG = CloudVolume("img")
    /\ VOLUME_SEG = CloudVolume("seg")
    /\ objects = <<>>
    /\ reads = <<>>
    /\ plan = <<>>
    /\ last = Idle
    /\ call = NoCall
    /\ seen = {}

\* fetch_slices.execute at the level of the request
FetchSlicesAtLevel ==
    /\ Cardinality(Slabs(objects)) < MaxSlabs
    /\ \E req \in LevelRequests :
          LET r == fetch_slices(req, VOLUME_IMG, VOLUME_SEG, 0)
          IN  /\ VOLUME_IMG' = r.img
              /\ VOLUME_SEG' = r.seg
              /\ objects' = objects \o r.planes
              /\ reads' = r.reads
              /\ last' = [op |-> "fetch_slices", result |-> r.result,
                          req |-> req, first |-> Len(objects) + 1]
    /\ plan' = <<>>
    /\ UNCHANGED <<call, seen>>

\* fetch_cube.execute at the level of the request
FetchCubeAtLevel ==
    /\ Slabs(objects) = {}
    /\ \E req \in LevelRequests :
          LET r == fetch_cube(req, VOLUME_IMG, VOLUME_SEG)
          IN  /\ VOLUME_IMG' = r.img
              /\ VOLUME_SEG' = r.seg
              /\ objects' = objects \o r.planes
              /\ reads' = r.reads
              /\ last' = [op |-> "fetch_cube", result |-> r.result,
                          req |-> req, first |-> Len(objects) + 1]
    /\ plan' = <<>>
    /\ UNCHANGED <<call, seen>>

\* fetch_mesh.execute for one ID at either level; the library may raise
FetchMeshAtLevel ==
    /\ ~Created("NEURON")
    /\ \E mip \in Levels, available \in SUBSET {<<1, 0, 1, 0>>} :
          LET r == fetch_mesh({<<1, 0, 1, 0>>}, available, VOLUME_SEG, mip, TRUE)
          IN  /\ VOLUME_SEG' = r.seg
              /\ objects' = objects \o r.meshes
              /\ last' = [op |-> "fetch_mesh", result |-> r.result, mip |-> mip]
    /\ reads' = <<>>
    /\ plan' = <<>>
    /\ UNCHANGED <<VOLUME_IMG, call, seen>>

\* the user sets the "mip" property of the slab created last
EditSlabLevel ==
    /\ Slabs(objects) # {}
    /\ LET i == SetMax(Slabs(objects))
       IN  \E m \in Levels :
              /\ objects[i].mip # m
              /\ objects' = [objects EXCEPT ![i].mip = m]
    /\ last' = [op |-> "edit", result |-> "FINISHED"]
    /\ reads' = <<>>
    /\ plan' = <<>>
    /\ UNCHANGED <<VOLUME_IMG, VOLUME_SEG, call, seen>>

NextLevels ==
    \/ FetchSlicesAtLevel
    \/ FetchCubeAtLevel
    \/ FetchMeshAtLevel
    \/ EditSlabLevel
    \/ UpdateImages

SpecLevels == InitLevels /\ [][NextLevels]_vars

\* the fetch_slices calls behind the operation recorded in `last`
SidesOf(op) ==
    IF op.op = "fetch_cube"
    THEN {cube_requests(op.req)[k] : k \in 1..6}
    ELSE {op.req}

\* the reads of the planes of request `side`, taken at level `mip` with the
\* ranges converted by the resolutions of that level
ReadsAtLevel(side, mip) ==
    LET res_im  == resolution_at(CloudVolume("img"), mip)
        res_seg == resolution_at(CloudVolume("seg"), mip)
        rng     == widen(to_voxels(side.rng, side.coords, res_im))
    IN  [img |-> Read("img", mip, rng),
         seg |-> Read("seg", mip, im2seg_fetch(rng, res_im, res_seg))]

\* the reads of a re-sync of slab ob at its level
ReSyncReadsAtLevel(ob) ==
    LET res_im  == resolution_at(CloudVolume("img"), ob.mip)
        res_seg == resolution_at(CloudVolume("seg"), ob.mip)
        rng     == recomputed_range(ob, res_im)
    IN  [img |-> Read("img", ob.mip, rng),
         seg |-> Read("seg", ob.mip, im2seg_update(rng, res_im, res_seg))]

\* C30: whatever level earlier operations left on the two volume handles,
\* every read of fetch_slices and fetch_cube is taken at the level of the
\* request, which is the level of the slabs it creates, on ranges converted
\* with that level's resolutions, and every read of an update pass is taken
\* at the level of the slab it is for, on the range recomputed with that
\* level's resolutions.
C30_ReadsAtSlabLevel ==
    /\ last.op \in {"fetch_slices", "fetch_cube"} =>
          /\ \A n \in DOMAIN reads :
                \E side \in SidesOf(last) :
                    reads[n] \in {ReadsAtLevel(side, last.req.mip).img,
                                  ReadsAtLevel(side, last.req.mip).seg}
          /\ \A i \in last.first..Len(objects) :
                /\ objects[i].mip = last.req.mip
                /\ \E side \in SidesOf(last) :
                      objects[i].tex = ReadsAtLevel(side, objects[i].mip)
                /\ \E n, m \in DOMAIN reads :
                      objects[i].tex = [img |-> reads[n], seg |-> reads[m]]
    /\ last.op = "update_images" =>
          /\ \A n \in DOMAIN reads :
                \E k \in DOMAIN plan :
                    /\ plan[k].read
                    /\ reads[n] \in {ReSyncReadsAtLevel(objects[plan[k].ob]).img,
                                     ReSyncReadsAtLevel(objects[plan[k].ob]).seg}
          /\ \A k \in DOMAIN plan :
                plan[k].read =>
                    \E n \in DOMAIN reads :
                        reads[n] = ReSyncReadsAtLevel(objects[plan[k].ob]).img

\* an update pass that read the segmentation for a slab at a level other
\* than the one selected on the handle, after a fetch_mesh moved the handle
C30_Witness ==
    /\ last.op = "update_images"
    /\ last.result = "FINISHED"
    /\ Created("NEURON")
    /\ \E n \in DOMAIN reads : reads[n].vol = "seg" /\ reads[n].mip # VOLUME_SEG.mip
    /\ \E n \in DOMAIN reads : reads[n].vol = "img" /\ reads[n].mip # VOLUME_IMG.mip

=============================================================================
